---- MODULE Spec2Model ----
(***************************************************************************)
(* A model of ztools/ztls/cipher_suites.go: the cipher suite table, the    *)
(* lookup mutualCipherSuite, the cipher / AEAD factories, the fixed-nonce  *)
(* AEAD wrapper and the two record MAC functions.                          *)
(*                                                                         *)
(* Pointers into the table are modelled as 1-based table positions, with   *)
(* 0 for nil.  A nil function field of a descriptor is the string "nil".   *)
(* Byte slices are sequences of integers 0..255.                           *)
(***************************************************************************)
EXTENDS Integers, Sequences, FiniteSets

(***************************************************************************)
(* Bounds of the model.                                                    *)
(***************************************************************************)
\* longest `have` list handed to mutualCipherSuite
MaxHave == 2
\* key lengths 0..MaxKeyLen and IV lengths 0..MaxIvLen are tried on the factories
MaxKeyLen == 33
MaxIvLen == 17
\* bytes of explicit nonces range over 0..MaxNonceByte
MaxNonceByte == 1
\* bytes of MAC inputs range over 0..MaxMacByte, payloads are at most MaxData long
MaxMacByte == 1
MaxData == 2

(***************************************************************************)
(* Flags (lines 38-52) and suite ids (lines 265-281, 367).                 *)
(***************************************************************************)
suiteECDHE == 1
suiteECDSA == 2
suiteTLS12 == 4

TLS_RSA_WITH_RC4_128_SHA == 5
TLS_RSA_WITH_3DES_EDE_CBC_SHA == 10
TLS_RSA_WITH_AES_128_CBC_SHA == 47
TLS_RSA_WITH_AES_256_CBC_SHA == 53
TLS_RSA_WITH_AES_128_GCM_SHA256 == 156
TLS_ECDHE_ECDSA_WITH_RC4_128_SHA == 49159
TLS_ECDHE_ECDSA_WITH_AES_128_CBC_SHA == 49161
TLS_ECDHE_ECDSA_WITH_AES_256_CBC_SHA == 49162
TLS_ECDHE_RSA_WITH_RC4_128_SHA == 49169
TLS_ECDHE_RSA_WITH_3DES_EDE_CBC_SHA == 49170
TLS_ECDHE_RSA_WITH_AES_128_CBC_SHA == 49171
TLS_ECDHE_RSA_WITH_AES_256_CBC_SHA == 49172
TLS_ECDHE_RSA_WITH_AES_128_GCM_SHA256 == 49199
TLS_ECDHE_ECDSA_WITH_AES_128_GCM_SHA256 == 49195
\* two ids the source names that have no descriptor in the table
TLS_RSA_WITH_RC4_128_MD5 == 4
TLS_ECDHE_ECDSA_WITH_CHACHA20_POLY1305_SHA256 == 52244

\* one descriptor: the fields of struct cipherSuite, in the order of the literal
cipherSuite(id, keyLen, macLen, ivLen, ka, flags, cipher, mac, aead) ==
    [id |-> id, keyLen |-> keyLen, macLen |-> macLen, ivLen |-> ivLen, ka |-> ka,
     flags |-> flags, cipher |-> cipher, mac |-> mac, aead |-> aead]

\* the rows of the table literal, in source order
cipherSuiteRows ==
    << cipherSuite(TLS_ECDHE_RSA_WITH_AES_128_GCM_SHA256, 16, 0, 4, "ecdheRSAKA", suiteECDHE + suiteTLS12, "nil", "nil", "aeadAESGCM"),
       cipherSuite(TLS_ECDHE_ECDSA_WITH_AES_128_GCM_SHA256, 16, 0, 4, "ecdheECDSAKA", suiteECDHE + suiteECDSA + suiteTLS12, "nil", "nil", "aeadAESGCM"),
       cipherSuite(TLS_ECDHE_RSA_WITH_RC4_128_SHA, 16, 20, 0, "ecdheRSAKA", suiteECDHE, "cipherRC4", "macSHA1", "nil"),
       cipherSuite(TLS_ECDHE_ECDSA_WITH_RC4_128_SHA, 16, 20, 0, "ecdheECDSAKA", suiteECDHE + suiteECDSA, "cipherRC4", "macSHA1", "nil"),
       cipherSuite(TLS_ECDHE_RSA_WITH_AES_128_CBC_SHA, 16, 20, 16, "ecdheRSAKA", suiteECDHE, "cipherAES", "macSHA1", "nil"),
       cipherSuite(TLS_ECDHE_ECDSA_WITH_AES_128_CBC_SHA, 16, 20, 16, "ecdheECDSAKA", suiteECDHE + suiteECDSA, "cipherAES", "macSHA1", "nil"),
       cipherSuite(TLS_ECDHE_RSA_WITH_AES_256_CBC_SHA, 32, 20, 16, "ecdheRSAKA", suiteECDHE, "cipherAES", "macSHA1", "nil"),
       cipherSuite(TLS_ECDHE_ECDSA_WITH_AES_256_CBC_SHA, 32, 20, 16, "ecdheECDSAKA", suiteECDHE + suiteECDSA, "cipherAES", "macSHA1", "nil"),
       cipherSuite(TLS_RSA_WITH_RC4_128_SHA, 16, 20, 0, "rsaKA", 0, "cipherRC4", "macSHA1", "nil"),
       cipherSuite(TLS_RSA_WITH_AES_128_GCM_SHA256, 16, 0, 4, "rsaKA", 0, "nil", "nil", "aeadAESGCM"),
       cipherSuite(TLS_RSA_WITH_AES_128_CBC_SHA, 16, 20, 16, "rsaKA", 0, "cipherAES", "macSHA1", "nil"),
       cipherSuite(TLS_RSA_WITH_AES_256_CBC_SHA, 32, 20, 16, "rsaKA", 0, "cipherAES", "macSHA1", "nil"),
       cipherSuite(TLS_ECDHE_RSA_WITH_3DES_EDE_CBC_SHA, 24, 20, 8, "ecdheRSAKA", suiteECDHE, "cipher3DES", "macSHA1", "nil"),
       cipherSuite(TLS_RSA_WITH_3DES_EDE_CBC_SHA, 24, 20, 8, "rsaKA", 0, "cipher3DES", "macSHA1", "nil") >>

\* the table with a MAC factory left on an AEAD row
cipherSuites_macOnAEAD == [cipherSuiteRows EXCEPT ![10].mac = "macSHA1"]

\* the table with a row's id pasted from its neighbour
cipherSuites_pastedId == [cipherSuiteRows EXCEPT ![11].id = TLS_RSA_WITH_AES_256_CBC_SHA]

\* the value the package variable cipherSuites is initialised with
cipherSuitesValue == cipherSuiteRows

\* var cipherSuites: the table, a package variable no function assigns to
VARIABLE cipherSuites

\* the ids the caller may list or the peer may request
SuiteIds ==
    { cipherSuiteRows[i].id : i \in DOMAIN cipherSuiteRows }
        \cup { TLS_RSA_WITH_RC4_128_MD5, TLS_ECDHE_ECDSA_WITH_CHACHA20_POLY1305_SHA256 }

(***************************************************************************)
(* mutualCipherSuite (lines 249-261).                                      *)
(***************************************************************************)
\* the inner loop over cipherSuites: the first row whose id is want, or nil
RECURSIVE suiteLoop(_, _)
suiteLoop(i, want) ==
    IF i > Len(cipherSuites) THEN 0
    ELSE IF cipherSuites[i].id = want THEN i
    ELSE suiteLoop(i + 1, want)

\* the outer loop over have, from position k
RECURSIVE haveLoop(_, _, _)
haveLoop(have, k, want) ==
    IF k > Len(have) THEN 0
    ELSE IF have[k] = want THEN suiteLoop(1, want)
    ELSE haveLoop(have, k + 1, want)

\* the lookup without the membership test on have
mutualCipherSuite_anySuite(have, want) == suiteLoop(1, want)

mutualCipherSuite(have, want) == haveLoop(have, 1, want)

(***************************************************************************)
(* Go's copy(dst[off:], src): as many bytes as fit, the rest of dst kept.  *)
(***************************************************************************)
copyAt(dst, off, src) ==
    [i \in 1..Len(dst) |->
        IF i > off /\ i - off <= Len(src) THEN src[i - off] ELSE dst[i]]

\* make([]byte, n)
makeBytes(n) == [i \in 1..n |-> 0]

(***************************************************************************)
(* The wrapped AEAD (crypto/cipher GCM over AES), taken as correct: a      *)
(* sealed text opens exactly under the key, the 12-byte nonce and the      *)
(* additional data it was sealed with.  The sealed text is kept symbolic.  *)
(***************************************************************************)
gcmSeal(key, nonce, plaintext, additionalData) ==
    [key |-> key, nonce |-> nonce, pt |-> plaintext, ad |-> additionalData]

gcmOpen(key, nonce, ciphertext, additionalData) ==
    IF ciphertext.key = key /\ ciphertext.nonce = nonce /\ ciphertext.ad = additionalData
    THEN [err |-> FALSE, pt |-> ciphertext.pt]
    ELSE [err |-> TRUE, pt |-> << >>]

\* aes.NewCipher accepts keys of 16, 24 or 32 bytes
aesKeyOK(key) == Len(key) \in {16, 24, 32}

(***************************************************************************)
(* aeadAESGCM and fixedNonceAEAD (lines 128-166).                          *)
(***************************************************************************)
\* the second buffer left without the salt
aeadAESGCM_nonce2Unset(key, fixedNonce_) ==
    IF ~aesKeyOK(key)
    THEN [status |-> "panic", sealNonce |-> << >>, openNonce |-> << >>, key |-> << >>]
    ELSE [status |-> "ok",
          sealNonce |-> copyAt(makeBytes(12), 0, fixedNonce_),
          openNonce |-> makeBytes(12),
          key |-> key]

aeadAESGCM(key, fixedNonce_) ==
    IF ~aesKeyOK(key)
    THEN [status |-> "panic", sealNonce |-> << >>, openNonce |-> << >>, key |-> << >>]
    ELSE [status |-> "ok",
          sealNonce |-> copyAt(makeBytes(12), 0, fixedNonce_),
          openNonce |-> copyAt(makeBytes(12), 0, fixedNonce_),
          key |-> key]

\* NonceSize()
NonceSize == 8

\* Seal's copy with the offset forgotten: copy(f.sealNonce, nonce)
Seal_copy_fromStart(fr, nonce) ==
    [fr EXCEPT !.sealNonce = copyAt(@, 0, nonce)]

\* Seal, line 142: copy(f.sealNonce[len(f.sealNonce)-8:], nonce)
Seal_copy(fr, nonce) ==
    [fr EXCEPT !.sealNonce = copyAt(@, Len(@) - 8, nonce)]

\* Seal, line 143: f.aead.Seal(out, f.sealNonce, plaintext, additionalData)
Seal_call(fr, plaintext, additionalData) ==
    gcmSeal(fr.key, fr.sealNonce, plaintext, additionalData)

\* Open's copy going to the buffer Seal uses
Open_copy_sealBuffer(fr, nonce) ==
    [fr EXCEPT !.sealNonce = copyAt(@, Len(@) - 8, nonce)]

\* Open, line 147: copy(f.openNonce[len(f.openNonce)-8:], nonce)
Open_copy(fr, nonce) ==
    [fr EXCEPT !.openNonce = copyAt(@, Len(@) - 8, nonce)]

\* Open, line 148: f.aead.Open(out, f.openNonce, plaintext, additionalData)
Open_call(fr, ciphertext, additionalData) ==
    gcmOpen(fr.key, fr.openNonce, ciphertext, additionalData)

(***************************************************************************)
(* The cipher factories (lines 89-108).  What the standard library does    *)
(* with a key or an IV of a given length:                                  *)
(*   rc4.NewCipher            error unless 1 <= len(key) <= 256            *)
(*   des.NewTripleDESCipher   error unless len(key) = 24, block size 8     *)
(*   aes.NewCipher            error unless len(key) in {16, 24, 32},       *)
(*                            block size 16                                *)
(*   cipher.NewCBCEncrypter / NewCBCDecrypter                              *)
(*                            panic when the block is nil (the factory     *)
(*                            dropped the error) or len(iv) is not the     *)
(*                            block size                                   *)
(* A factory's outcome is "panic", "nil" (a nil object returned) or "ok".  *)
(***************************************************************************)
rc4KeyOK(key) == Len(key) >= 1 /\ Len(key) <= 256

desKeyOK(key) == Len(key) = 24

newCBC(blockOK, blockSize, iv) ==
    IF ~blockOK THEN "panic"
    ELSE IF Len(iv) # blockSize THEN "panic"
    ELSE "ok"

cipherRC4(key, iv, isRead) == IF rc4KeyOK(key) THEN "ok" ELSE "nil"

cipher3DES(key, iv, isRead) == newCBC(desKeyOK(key), 8, iv)

cipherAES(key, iv, isRead) == newCBC(aesKeyOK(key), 16, iv)

(***************************************************************************)
(* The MAC functions (lines 110-220).  A hash.Hash is modelled by the      *)
(* bytes written to it since its last Reset.  SHA-1 and HMAC-SHA1 are      *)
(* taken as collision-free: a digest is modelled by the text digested,     *)
(* set between marks that are no bytes, so that distinct texts have        *)
(* distinct digests and a digest can be written to a hash again.           *)
(***************************************************************************)
\* sha1.Size, the Size() of the hash both MACs are built on (line 114, 120)
sha1Size == 20

hReset(h) == << >>

hWrite(h, p) == h \o p

\* h.Sum(digestBuf[:0]) of a sha1 hash
sha1Sum(h) == << -1 >> \o h \o << -2 >>

\* h.Sum(digestBuf[:0]) of hmac.New(sha1.New, key)
hmacSum(key, h) == << -3 >> \o key \o << -4 >> \o h \o << -5 >>

ssl30Pad1 == [i \in 1..48 |-> 54]

ssl30Pad2 == [i \in 1..48 |-> 92]

VersionSSL30 == 768

\* macSHA1(version, key): the MAC object, its hash freshly made
macSHA1(version, key) ==
    IF version = VersionSSL30
    THEN [kind |-> "ssl30MAC", key |-> copyAt(makeBytes(Len(key)), 0, key), h |-> << >>]
    ELSE [kind |-> "tls10MAC", key |-> key, h |-> << >>]

\* ssl30MAC.MAC without the Reset before the first pass
ssl30MAC_MAC_noReset(s, seq, header, data) ==
    LET padLength == IF sha1Size = 20 THEN 40 ELSE 48
        h1 == s.h
        h2 == hWrite(h1, s.key)
        h3 == hWrite(h2, SubSeq(ssl30Pad1, 1, padLength))
        h4 == hWrite(h3, seq)
        h5 == hWrite(h4, SubSeq(header, 1, 1))
        h6 == hWrite(h5, SubSeq(header, 4, 5))
        h7 == hWrite(h6, data)
        digestBuf == sha1Sum(h7)
        g1 == hReset(h7)
        g2 == hWrite(g1, s.key)
        g3 == hWrite(g2, SubSeq(ssl30Pad2, 1, padLength))
        g4 == hWrite(g3, digestBuf)
    IN  [s |-> [s EXCEPT !.h = g4], ret |-> sha1Sum(g4)]

\* ssl30MAC.MAC with the record length left out of the first pass
ssl30MAC_MAC_noLength(s, seq, header, data) ==
    LET padLength == IF sha1Size = 20 THEN 40 ELSE 48
        h1 == hReset(s.h)
        h2 == hWrite(h1, s.key)
        h3 == hWrite(h2, SubSeq(ssl30Pad1, 1, padLength))
        h4 == hWrite(h3, seq)
        h5 == hWrite(h4, SubSeq(header, 1, 1))
        h7 == hWrite(h5, data)
        digestBuf == sha1Sum(h7)
        g1 == hReset(h7)
        g2 == hWrite(g1, s.key)
        g3 == hWrite(g2, SubSeq(ssl30Pad2, 1, padLength))
        g4 == hWrite(g3, digestBuf)
    IN  [s |-> [s EXCEPT !.h = g4], ret |-> sha1Sum(g4)]

\* ssl30MAC.MAC (lines 183-203): the object afterwards (its hash is shared
\* by every copy of the value receiver) and the digest returned.
\* header[:1] is byte 1 and header[3:5] bytes 4..5 of the 1-based sequence.
ssl30MAC_MAC(s, seq, header, data) ==
    LET padLength == IF sha1Size = 20 THEN 40 ELSE 48
        h1 == hReset(s.h)
        h2 == hWrite(h1, s.key)
        h3 == hWrite(h2, SubSeq(ssl30Pad1, 1, padLength))
        h4 == hWrite(h3, seq)
        h5 == hWrite(h4, SubSeq(header, 1, 1))
        h6 == hWrite(h5, SubSeq(header, 4, 5))
        h7 == hWrite(h6, data)
        digestBuf == sha1Sum(h7)
        g1 == hReset(h7)
        g2 == hWrite(g1, s.key)
        g3 == hWrite(g2, SubSeq(ssl30Pad2, 1, padLength))
        g4 == hWrite(g3, digestBuf)
    IN  [s |-> [s EXCEPT !.h = g4], ret |-> sha1Sum(g4)]

\* tls10MAC.MAC (lines 214-220)
tls10MAC_MAC(s, seq, header, data) ==
    LET h1 == hReset(s.h)
        h2 == hWrite(h1, seq)
        h3 == hWrite(h2, header)
        h4 == hWrite(h3, data)
    IN  [s |-> [s EXCEPT !.h = h4], ret |-> hmacSum(s.key, h4)]

\* macFunction.MAC: the method of the object's type
MAC(s, seq, header, data) ==
    IF s.kind = "ssl30MAC" THEN ssl30MAC_MAC(s, seq, header, data)
    ELSE tls10MAC_MAC(s, seq, header, data)

(***************************************************************************)
(* State.                                                                  *)
(***************************************************************************)
\* mutualCipherSuite: its arguments, its result, whether it has returned
VARIABLES msHave, msWant, msRet, msDone

\* one fixedNonceAEAD f built from fixedNonce; a Seal call and an Open call,
\* each at "idle" or "copied" (between its two statements), their arguments,
\* the nonce each handed to the wrapped AEAD, the record last sealed
\* (explicit nonce, additional data, sealed text) and Open's last result
VARIABLES fixedNonce, f, pcSeal, sealCall, sealHanded, sealMsg,
          pcOpen, openCall, openHanded, openRet

\* one construction: the table row whose factory is called, the key
\* material handed to it, the direction, the outcome, whether it has returned
VARIABLES facSuite, facKey, facIv, facIsRead, facRet, facDone

\* one MAC object m, the arguments and digest of its last MAC call and of
\* the call before it (empty digest: no such call yet)
VARIABLES m, macCall, macRet, prevCall, prevRet

suiteVars == << cipherSuites, msHave, msWant, msRet, msDone >>

facVars == << facSuite, facKey, facIv, facIsRead, facRet, facDone >>

macVars == << m, macCall, macRet, prevCall, prevRet >>

aeadVars == << fixedNonce, f, pcSeal, sealCall, sealHanded, sealMsg,
               pcOpen, openCall, openHanded, openRet >>

vars == << suiteVars, aeadVars, facVars, macVars >>

(***************************************************************************)
(* mutualCipherSuite as an operation.                                      *)
(***************************************************************************)
HaveLists == UNION { [1..n -> SuiteIds] : n \in 0..MaxHave }

\* the caller's list and the peer's request are the inputs; no call made yet
SuitesInit ==
    /\ cipherSuites = cipherSuitesValue
    /\ msHave \in HaveLists
    /\ msWant \in SuiteIds
    /\ msRet = 0
    /\ msDone = FALSE

SuitesIdle ==
    /\ cipherSuites = cipherSuitesValue
    /\ msHave = << >>
    /\ msWant = TLS_RSA_WITH_RC4_128_SHA
    /\ msRet = 0
    /\ msDone = FALSE

\* the call mutualCipherSuite(msHave, msWant)
MutualCipherSuite ==
    /\ ~msDone
    /\ msRet' = mutualCipherSuite(msHave, msWant)
    /\ msDone' = TRUE
    /\ UNCHANGED << cipherSuites, msHave, msWant >>

(***************************************************************************)
(* Seal and Open on one fixedNonceAEAD, each call two steps, the two calls *)
(* running concurrently.                                                   *)
(***************************************************************************)
\* a 4-byte salt (ivLen of the AEAD rows), a 16-byte key (their keyLen)
Salts == { << 1, 2, 3, 4 >> }

AeadKey == [i \in 1..16 |-> 7]

\* explicit nonces: a repeated byte, and the counter value 1
Nonces ==
    { [i \in 1..NonceSize |-> b] : b \in 0..MaxNonceByte }
        \cup { [i \in 1..NonceSize |-> IF i = NonceSize THEN 1 ELSE 0] }

Plaintexts == { << 5 >>, << 6, 7 >> }

AdditionalData == { << 1 >>, << 2 >> }

\* a record that was not sealed by this connection's key
ForgedText == [key |-> << >>, nonce |-> << >>, pt |-> << >>, ad |-> << >>]

NoCall == [nonce |-> << >>, text |-> << >>, ad |-> << >>]

AEADInitWith(salts) ==
    /\ fixedNonce \in salts
    /\ f = aeadAESGCM(AeadKey, fixedNonce)
    /\ pcSeal = "idle"
    /\ sealCall = NoCall
    /\ sealHanded = << >>
    /\ sealMsg = << >>
    /\ pcOpen = "idle"
    /\ openCall = NoCall
    /\ openHanded = << >>
    /\ openRet = << >>

AEADInit == AEADInitWith(Salts)

AEADIdle == AEADInitWith(Salts)

\* Seal(out, nonce, plaintext, additionalData), first statement
SealCopy ==
    \E nonce \in Nonces, plaintext \in Plaintexts, ad \in AdditionalData :
        /\ pcSeal = "idle"
        /\ f' = Seal_copy(f, nonce)
        /\ sealCall' = [nonce |-> nonce, text |-> plaintext, ad |-> ad]
        /\ pcSeal' = "copied"
        /\ UNCHANGED << fixedNonce, sealHanded, sealMsg, pcOpen, openCall, openHanded, openRet >>

\* Seal, second statement and return; the sealed record goes on the wire
SealCall ==
    /\ pcSeal = "copied"
    /\ sealHanded' = f.sealNonce
    /\ sealMsg' = << [nonce |-> sealCall.nonce, pt |-> sealCall.text, ad |-> sealCall.ad,
                      ct |-> Seal_call(f, sealCall.text, sealCall.ad)] >>
    /\ pcSeal' = "idle"
    /\ UNCHANGED << fixedNonce, f, sealCall, pcOpen, openCall, openHanded, openRet >>

\* the sealed texts Open may be given: the record last sealed, or a forged one
Received == { sealMsg[i].ct : i \in DOMAIN sealMsg } \cup { ForgedText }

\* Open(out, nonce, ciphertext, additionalData), first statement
OpenCopy ==
    \E nonce \in Nonces, ciphertext \in Received, ad \in AdditionalData :
        /\ pcOpen = "idle"
        /\ f' = Open_copy(f, nonce)
        /\ openCall' = [nonce |-> nonce, text |-> ciphertext, ad |-> ad]
        /\ pcOpen' = "copied"
        /\ UNCHANGED << fixedNonce, pcSeal, sealCall, sealHanded, sealMsg, openHanded, openRet >>

\* Open, second statement and return
OpenCall ==
    /\ pcOpen = "copied"
    /\ openHanded' = f.openNonce
    /\ openRet' = << Open_call(f, openCall.text, openCall.ad) >>
    /\ pcOpen' = "idle"
    /\ UNCHANGED << fixedNonce, f, pcSeal, sealCall, sealHanded, sealMsg, openCall >>

(***************************************************************************)
(* One construction of a cipher or AEAD from a table row's factory.        *)
(***************************************************************************)
\* key material of length n
keyBytes(n) == [i \in 1..n |-> 1 + (i % 250)]

FactoryInit ==
    /\ facSuite \in DOMAIN cipherSuitesValue
    /\ facKey \in { keyBytes(n) : n \in 0..MaxKeyLen }
    /\ facIv \in { keyBytes(n) : n \in 0..MaxIvLen }
    /\ facIsRead \in BOOLEAN
    /\ facRet = "none"
    /\ facDone = FALSE

FactoryIdle ==
    /\ facSuite = 1
    /\ facKey = << >>
    /\ facIv = << >>
    /\ facIsRead = FALSE
    /\ facRet = "none"
    /\ facDone = FALSE

Returned(outcome) ==
    /\ facRet' = outcome
    /\ facDone' = TRUE
    /\ UNCHANGED << facSuite, facKey, facIv, facIsRead >>

CipherRC4 ==
    /\ ~facDone
    /\ cipherSuites[facSuite].cipher = "cipherRC4"
    /\ Returned(cipherRC4(facKey, facIv, facIsRead))

Cipher3DES ==
    /\ ~facDone
    /\ cipherSuites[facSuite].cipher = "cipher3DES"
    /\ Returned(cipher3DES(facKey, facIv, facIsRead))

CipherAES ==
    /\ ~facDone
    /\ cipherSuites[facSuite].cipher = "cipherAES"
    /\ Returned(cipherAES(facKey, facIv, facIsRead))

AeadAESGCM ==
    /\ ~facDone
    /\ cipherSuites[facSuite].aead = "aeadAESGCM"
    /\ Returned(aeadAESGCM(facKey, facIv).status)

(***************************************************************************)
(* MAC calls on one MAC object.                                            *)
(***************************************************************************)
\* 20-byte MAC keys (macLen of the rows with a MAC)
MacKeys == { [i \in 1..20 |-> 3], [i \in 1..20 |-> 4] }

Versions == { VersionSSL30, VersionSSL30 + 1 }

\* the 8-byte sequence number, the 5-byte header and the payload cut from
\* one flat string of 13 + n bytes
triple(flat) ==
    [seq |-> SubSeq(flat, 1, 8), header |-> SubSeq(flat, 9, 13),
     data |-> SubSeq(flat, 14, Len(flat))]

DataLens == { 0, MaxData }

\* inputs: all bytes zero, or all zero but one
MacInputs ==
    { triple(makeBytes(13 + n)) : n \in DataLens }
        \cup { triple([i \in 1..(13 + n) |-> IF i = p THEN b ELSE 0]) :
                   n \in DataLens, p \in 1..(13 + MaxData), b \in 1..MaxMacByte }

NoMacCall == [seq |-> << >>, header |-> << >>, data |-> << >>]

MACInitWith(versions, keys) ==
    /\ \E version \in versions, key \in keys : m = macSHA1(version, key)
    /\ macCall = NoMacCall
    /\ macRet = << >>
    /\ prevCall = NoMacCall
    /\ prevRet = << >>

MACInit == MACInitWith(Versions, MacKeys)

MACIdle == MACInitWith({ VersionSSL30 }, { [i \in 1..20 |-> 3] })

\* m.MAC(digestBuf, seq, header, data)
MACCall ==
    \E in \in MacInputs :
        LET r == MAC(m, in.seq, in.header, in.data) IN
            /\ m' = r.s
            /\ macCall' = in
            /\ macRet' = r.ret
            /\ prevCall' = macCall
            /\ prevRet' = macRet

(***************************************************************************)
(* Specifications: one per part of the file, the other parts at rest.      *)
(***************************************************************************)
SuitesNext == MutualCipherSuite /\ UNCHANGED << aeadVars, facVars, macVars >>

InitSuites == SuitesInit /\ AEADIdle /\ FactoryIdle /\ MACIdle

SpecSuites == InitSuites /\ [][SuitesNext]_vars

AEADNext ==
    \/ SealCopy /\ UNCHANGED << suiteVars, facVars, macVars >>
    \/ SealCall /\ UNCHANGED << suiteVars, facVars, macVars >>
    \/ OpenCopy /\ UNCHANGED << suiteVars, facVars, macVars >>
    \/ OpenCall /\ UNCHANGED << suiteVars, facVars, macVars >>

InitAEAD == SuitesIdle /\ AEADInit /\ FactoryIdle /\ MACIdle

SpecAEAD == InitAEAD /\ [][AEADNext]_vars

FactoryNext ==
    \/ CipherRC4 /\ UNCHANGED << suiteVars, aeadVars, macVars >>
    \/ Cipher3DES /\ UNCHANGED << suiteVars, aeadVars, macVars >>
    \/ CipherAES /\ UNCHANGED << suiteVars, aeadVars, macVars >>
    \/ AeadAESGCM /\ UNCHANGED << suiteVars, aeadVars, macVars >>

InitFactory == SuitesIdle /\ AEADIdle /\ FactoryInit /\ MACIdle

SpecFactory == InitFactory /\ [][FactoryNext]_vars

MACNext == MACCall /\ UNCHANGED << suiteVars, aeadVars, facVars >>

InitMAC == SuitesIdle /\ AEADIdle /\ FactoryIdle /\ MACInit

SpecMAC == InitMAC /\ [][MACNext]_vars

(***************************************************************************)
(* Claims about the table and the lookup.                                  *)
(***************************************************************************)
Range(s) == { s[i] : i \in DOMAIN s }

InTable(id) == \E i \in DOMAIN cipherSuites : cipherSuites[i].id = id

\* C1: mutualCipherSuite(have, want) returns a descriptor of the table whose
\* id is want exactly when want occurs in have and some table row has that
\* id; in every other case it returns nil.
C1_MutualExactly ==
    msDone =>
        /\ (msRet # 0) <=> (msWant \in Range(msHave) /\ InTable(msWant))
        /\ msRet # 0 => (msRet \in DOMAIN cipherSuites /\ cipherSuites[msRet].id = msWant)

\* the call ([0x002f, 0xc013], 0xc013) has returned the 0xc013 descriptor
C1_Witness ==
    /\ msDone
    /\ msHave = << TLS_RSA_WITH_AES_128_CBC_SHA, TLS_ECDHE_RSA_WITH_AES_128_CBC_SHA >>
    /\ msWant = TLS_ECDHE_RSA_WITH_AES_128_CBC_SHA
    /\ msRet = 5

\* C2: every descriptor of the table is either (cipher and mac, no aead) or
\* (aead, neither cipher nor mac).
C2_ExactlyOneShape ==
    \A i \in DOMAIN cipherSuites :
        LET s == cipherSuites[i] IN
            \/ (s.cipher # "nil" /\ s.mac # "nil" /\ s.aead = "nil")
            \/ (s.cipher = "nil" /\ s.mac = "nil" /\ s.aead # "nil")

\* a lookup returned an AEAD descriptor of the table
C2_Witness ==
    /\ msDone
    /\ msRet # 0
    /\ cipherSuites[msRet].aead = "aeadAESGCM"
    /\ cipherSuites[msRet].cipher = "nil"

\* C9: no two rows of the table share an id.
C9_UniqueIds ==
    \A i, j \in DOMAIN cipherSuites :
        i # j => cipherSuites[i].id # cipherSuites[j].id

\* a lookup by id returned the last-but-three row: no earlier row has its id
C9_Witness ==
    /\ msDone
    /\ msWant = TLS_RSA_WITH_AES_128_CBC_SHA
    /\ msRet = 11

(***************************************************************************)
(* Claims about fixedNonceAEAD.                                            *)
(***************************************************************************)
\* C3: with one Seal and one Open interleaved in any order, the nonce each
\* call hands to the wrapped AEAD is the salt followed by that call's own
\* explicit nonce, and the text Seal returns is the one sealed under it.
C3_OwnNonceHanded ==
    /\ (pcSeal = "copied") => (f.sealNonce = fixedNonce \o sealCall.nonce)
    /\ (pcOpen = "copied") => (f.openNonce = fixedNonce \o openCall.nonce)
    /\ (pcSeal = "idle" /\ sealHanded # << >>) =>
            /\ sealHanded = fixedNonce \o sealCall.nonce
            /\ sealMsg[1].ct = gcmSeal(f.key, fixedNonce \o sealCall.nonce, sealCall.text, sealCall.ad)
    /\ (pcOpen = "idle" /\ openHanded # << >>) =>
            /\ openHanded = fixedNonce \o openCall.nonce
            /\ openRet[1] = gcmOpen(f.key, fixedNonce \o openCall.nonce, openCall.text, openCall.ad)

\* both calls are between their two statements, with different explicit nonces
C3_Witness ==
    /\ pcSeal = "copied"
    /\ pcOpen = "copied"
    /\ sealCall.nonce # openCall.nonce

\* C4: the first 4 bytes of both buffers are always the salt given at
\* construction; a call overwrites the last 8 bytes of its own buffer with
\* its explicit nonce.
C4_SaltKept ==
    /\ Len(f.sealNonce) = 12
    /\ Len(f.openNonce) = 12
    /\ SubSeq(f.sealNonce, 1, 4) = fixedNonce
    /\ SubSeq(f.openNonce, 1, 4) = fixedNonce
    /\ (pcSeal = "copied") => (SubSeq(f.sealNonce, 5, 12) = sealCall.nonce)
    /\ (pcOpen = "copied") => (SubSeq(f.openNonce, 5, 12) = openCall.nonce)

\* Seal and Open have both returned at least once and both buffers hold a
\* non-zero explicit nonce
C4_Witness ==
    /\ sealHanded # << >>
    /\ openHanded # << >>
    /\ SubSeq(f.sealNonce, 5, 12) # makeBytes(8)
    /\ SubSeq(f.openNonce, 5, 12) # makeBytes(8)
    /\ SubSeq(f.sealNonce, 5, 12) # SubSeq(f.openNonce, 5, 12)

\* C8: Open(n, Seal(n, pt, ad), ad) returns pt without error, whatever calls
\* came before.
C8_RoundTrip ==
    ( /\ pcOpen = "idle"
      /\ openRet # << >>
      /\ sealMsg # << >>
      /\ openCall.text = sealMsg[1].ct
      /\ openCall.nonce = sealMsg[1].nonce
      /\ openCall.ad = sealMsg[1].ad )
        => openRet[1] = [err |-> FALSE, pt |-> sealMsg[1].pt]

\* Open has returned the plaintext of the record last sealed, while a later
\* Seal with another explicit nonce is already under way
C8_Witness ==
    /\ pcOpen = "idle"
    /\ openRet # << >>
    /\ sealMsg # << >>
    /\ openCall.text = sealMsg[1].ct
    /\ openCall.nonce = sealMsg[1].nonce
    /\ openCall.ad = sealMsg[1].ad
    /\ ~openRet[1].err
    /\ openRet[1].pt = << 6, 7 >>
    /\ pcSeal = "copied"
    /\ sealCall.nonce # openCall.nonce

(***************************************************************************)
(* Claims about the table's order, the factories and the MACs.             *)
(***************************************************************************)
IsECDHE(s) == s.ka \in { "ecdheRSAKA", "ecdheECDSAKA" }

IsPlainRSA(s) == s.ka = "rsaKA"

IsRC4(s) == s.cipher = "cipherRC4"

IsAES(s) == s.cipher = "cipherAES" \/ s.aead = "aeadAESGCM"

\* C10: every ECDHE row sits before every plain RSA row, and every RC4 row
\* before every AES row.
C10_PreferenceOrder ==
    \A i, j \in DOMAIN cipherSuites :
        /\ (IsECDHE(cipherSuites[i]) /\ IsPlainRSA(cipherSuites[j])) => i < j
        /\ (IsRC4(cipherSuites[i]) /\ IsAES(cipherSuites[j])) => i < j

\* C6: a factory given a key or an IV (a salt, for the AEAD) whose length is
\* not the descriptor's keyLen or ivLen ends in a fatal error.
C6_WrongLengthAborts ==
    ( /\ facDone
      /\ \/ Len(facKey) # cipherSuites[facSuite].keyLen
         \/ Len(facIv) # cipherSuites[facSuite].ivLen )
        => facRet = "panic"

\* the flat positions at which two inputs of equal lengths differ
Flat(c) == c.seq \o c.header \o c.data

DiffAt(a, b) == { i \in 1..Len(Flat(a)) : Flat(a)[i] # Flat(b)[i] }

TwoCalls ==
    /\ macRet # << >>
    /\ prevRet # << >>
    /\ Len(macCall.data) = Len(prevCall.data)

\* the protocol version bytes header[1] and header[2], as flat positions
VersionBytes == { 10, 11 }

\* C5 as stated: for the SSLv3 MAC, two inputs that differ in exactly one
\* byte never have the same digest.
C5_AnyByteChangesDigest ==
    ( /\ m.kind = "ssl30MAC"
      /\ TwoCalls
      /\ Cardinality(DiffAt(prevCall, macCall)) = 1 )
        => macRet # prevRet

\* C5 as amended: for the SSLv3 MAC, two inputs that differ in exactly one
\* byte other than the header's two version bytes never have the same
\* digest, and two inputs that differ only in version bytes always do.
C5_CoveredByteChangesDigest ==
    ( m.kind = "ssl30MAC" /\ TwoCalls ) =>
        /\ ( /\ Cardinality(DiffAt(prevCall, macCall)) = 1
             /\ DiffAt(prevCall, macCall) \cap VersionBytes = { } )
                => macRet # prevRet
        /\ DiffAt(prevCall, macCall) \subseteq VersionBytes
                => macRet = prevRet

\* two SSLv3 MAC calls whose inputs differ in one byte of the record length
C5_Witness ==
    /\ m.kind = "ssl30MAC"
    /\ TwoCalls
    /\ DiffAt(prevCall, macCall) = { 13 }
    /\ macRet # prevRet

\* C7: whatever calls came before, MAC returns the digest a freshly made
\* object with the same key returns for the same arguments.
C7_IndependentOfHistory ==
    macRet # << >> =>
        macRet = MAC([m EXCEPT !.h = << >>], macCall.seq, macCall.header, macCall.data).ret

\* a second call on an object whose hash still holds the first call's text
C7_Witness ==
    /\ macRet # << >>
    /\ prevRet # << >>
    /\ prevCall # macCall
    /\ m.h # << >>

(***************************************************************************)
(* Claim about the flags of the table.                                     *)
(***************************************************************************)
\* flags & flag != 0, for a flag that is one bit
HasFlag(s, flag) == (s.flags \div flag) % 2 = 1

\* C11: a row of the table carries suiteTLS12 exactly when it has an aead
\* factory.
C11_AEADIffTLS12 ==
    \A i \in DOMAIN cipherSuites :
        (cipherSuites[i].aead # "nil") <=> HasFlag(cipherSuites[i], suiteTLS12)

====
